---- MODULE Spec2Model ----
(***************************************************************************)
(* aztfy: the command-line entry point (main) and the quiet-mode batch     *)
(* pipeline (batchImport) of src/main.go, as a state machine.              *)
(*                                                                         *)
(* The model starts when flag.Parse has returned: the parsed flag values   *)
(* and the number of positional arguments are the inputs.  Strings that    *)
(* reach fmt are sequences of one-character strings, so that formatting is *)
(* computed the way package fmt computes it.  The engine (internal/meta),  *)
(* the configuration loader and the interactive program are collaborators: *)
(* each call is one step whose outcome is chosen among the outcomes the    *)
(* collaborator can produce, and is recorded in the call log.              *)
(***************************************************************************)
EXTENDS Integers, Sequences, FiniteSets, TLC

(***************************************************************************)
(* Bounds                                                                  *)
(***************************************************************************)
\* longest list ListResource returns
MaxLen == 3

(***************************************************************************)
(* Values                                                                  *)
(***************************************************************************)
\* the nil error: no text is made of this token, every text is a sequence of
\* one-character strings
Nil == <<"<nil>">>

\* error texts the collaborators return; one is plain, one holds a percent sign
Causes == { <<"e">>, <<"%", "d">> }

\* errors.New: "-q must be used together with -m" (each flag in backquotes),
\* as one token: this text never reaches fmt
errQuietNeedsMapping == <<"-q must be used together with -m">>

\* errors.New: "-k must be used together with -q" (each flag in backquotes)
errContinueNeedsQuiet == <<"-k must be used together with -q">>

\* the usage text flag.Usage prints, as one token
usageText == <<"usage">>

\* "Failed to import %s as %s: %v"
importFormat ==
    <<"F", "a", "i", "l", "e", "d", " ", "t", "o", " ", "i", "m", "p", "o", "r", "t", " ",
      "%", "s", " ", "a", "s", " ", "%", "s", ":", " ", "%", "v">>

\* "generating Terraform configuration: %v"
generateFormat ==
    <<"g", "e", "n", "e", "r", "a", "t", "i", "n", "g", " ", "T", "e", "r", "r", "a", "f",
      "o", "r", "m", " ", "c", "o", "n", "f", "i", "g", "u", "r", "a", "t", "i", "o", "n",
      ":", " ", "%", "v">>

(***************************************************************************)
(* Package fmt, for the formats and operands main.go gives it: operands    *)
(* are strings and errors, printed by %s and %v as their text.  Formats    *)
(* are over letters, space, punctuation and the percent sign (no digits,   *)
(* '.', '*' or '[').                                                       *)
(***************************************************************************)
\* the flag characters doPrintf skips between '%' and the verb
fmtFlags == {"#", "0", "+", "-", " "}

\* "%!(NOVERB)": the format ends after a percent sign
noVerbString == <<"%", "!", "(", "N", "O", "V", "E", "R", "B", ")">>

\* "%!verb(MISSING)": a verb with no operand left
missingArg(verb) == <<"%", "!", verb>> \o <<"(", "M", "I", "S", "S", "I", "N", "G", ")">>

\* "%!verb(string=text)": a verb that does not print a string
badVerb(verb, arg) ==
    <<"%", "!", verb, "(", "s", "t", "r", "i", "n", "g", "=">> \o arg \o <<")">>

RECURSIVE skipFlags(_)
skipFlags(f) == IF f # <<>> /\ Head(f) \in fmtFlags THEN skipFlags(Tail(f)) ELSE f

RECURSIVE doPrintf(_, _)
doPrintf(format, a) ==
    IF format = <<>> THEN <<>>
    ELSE IF Head(format) # "%" THEN <<Head(format)>> \o doPrintf(Tail(format), a)
    ELSE LET rest == skipFlags(Tail(format)) IN
         IF rest = <<>> THEN noVerbString
         ELSE LET verb == Head(rest) IN
              IF verb = "%" THEN <<"%">> \o doPrintf(Tail(rest), a)
              ELSE IF a = <<>> THEN missingArg(verb) \o doPrintf(Tail(rest), a)
              ELSE IF verb \in {"s", "v"} THEN Head(a) \o doPrintf(Tail(rest), Tail(a))
              ELSE badVerb(verb, Head(a)) \o doPrintf(Tail(rest), Tail(a))

\* fmt.Sprintf(format, a...)
Sprintf(format, a) == doPrintf(format, a)

\* fmt.Errorf(format, a...): an error, never nil, whose text is the formatted string
Errorf(format, a) == doPrintf(format, a)

(***************************************************************************)
(* Resource records (meta.ImportItem)                                      *)
(***************************************************************************)
\* the records discovery can return: with and without a mapping, with and
\* without a percent sign in the resource ID and in the target address
RecordKinds ==
    { [ResourceID |-> <<"r">>, mappingPresent |-> FALSE, targetAddress |-> <<>>, ImportError |-> Nil],
      [ResourceID |-> <<"r">>, mappingPresent |-> TRUE, targetAddress |-> <<"t">>, ImportError |-> Nil],
      [ResourceID |-> <<"%">>, mappingPresent |-> TRUE, targetAddress |-> <<"t">>, ImportError |-> Nil],
      [ResourceID |-> <<"r">>, mappingPresent |-> TRUE, targetAddress |-> <<"%", "%">>, ImportError |-> Nil] }

\* the lists ListResource can return
Lists == UNION { [1..n -> RecordKinds] : n \in 0..MaxLen }

\* item.Skip(): the record has no mapping
Skip(r) == ~r.mappingPresent

\* item.TFAddr(): the target address of a mapped record
TFAddr(r) == r.targetAddress

VARIABLES
    flagVersion,      \* *flagVersion
    flagQuietMode,    \* *flagQuietMode
    flagContinue,     \* *flagContinue
    flagMappingFile,  \* *flagMappingFile, "" when -m is not given
    nargs,            \* len(flag.Args())
    pc,               \* the statement the process is at
    exitCode,         \* the exit codes the process ended with: none while it runs
    stdout,           \* what main printed on standard output
    stderr,           \* what main printed on standard error
    cfg,              \* the run configuration config.NewConfig returned
    continueOnError,  \* batchImport's parameter
    list,             \* batchImport's list
    i,                \* batchImport's loop index (1-based)
    ret,              \* batchImport's return value
    logged,           \* the lines batchImport gave its logger
    calls,            \* the collaborator calls made, in order, with their outcomes
    run,              \* 1 in the first run of batchImport, 2 in a re-run
    prevCalls,        \* the call log of the first run
    prevRet,          \* the return value of the first run
    mainCalls         \* the calls main made after the flag checks, in order

vars == <<flagVersion, flagQuietMode, flagContinue, flagMappingFile, nargs, pc, exitCode,
          stdout, stderr, cfg, continueOnError, list, i, ret, logged, calls, run,
          prevCalls, prevRet, mainCalls>>

flags == <<flagVersion, flagQuietMode, flagContinue, flagMappingFile, nargs>>
batch == <<continueOnError, list, i, ret, logged, calls>>
rerun == <<run, prevCalls, prevRet>>

\* the run configuration: only Logfile is read by main.go
NoCfg == [Logfile |-> ""]
Cfgs == { [Logfile |-> ""], [Logfile |-> "log"] }

\* one entry of the call log
Call(op, idx, arg, err) == [op |-> op, idx |-> idx, arg |-> arg, err |-> err]

\* one line given to the logger: its text up to the operands, and the record it is about
Line(text, idx) == <<text, idx>>

\* The outcomes a collaborator call can have: any of `free` in a first run; in
\* a re-run, the outcome the same call had in the first run, when it was made.
Outcomes(op, idx, free) ==
    LET same == { n \in 1..Len(prevCalls) : prevCalls[n].op = op /\ prevCalls[n].idx = idx } IN
    IF run = 2 /\ same # {}
    THEN { [arg |-> prevCalls[n].arg, err |-> prevCalls[n].err] : n \in same }
    ELSE free

Init ==
    /\ flagVersion \in BOOLEAN
    /\ flagQuietMode \in BOOLEAN
    /\ flagContinue \in BOOLEAN
    /\ flagMappingFile \in {"", "map.json"}
    /\ nargs \in 0..2
    /\ pc = "main"
    /\ exitCode = <<>>
    /\ stdout = <<>>
    /\ stderr = <<>>
    /\ cfg = NoCfg
    /\ continueOnError = FALSE
    /\ list = <<>>
    /\ i = 1
    /\ ret = Nil
    /\ logged = <<>>
    /\ calls = <<>>
    /\ run = 1
    /\ prevCalls = <<>>
    /\ prevRet = Nil
    /\ mainCalls = <<>>

(***************************************************************************)
(* main                                                                    *)
(***************************************************************************)
\* os.Exit(code), and the return from main, which ends the process with code 0
Exit(code) ==
    /\ pc' = "exited"
    /\ exitCode' = Append(exitCode, code)

\* fatal exits with the success code
fatalExitCode_success == 1 - 1

\* the exit code fatal gives os.Exit
fatalExitCode == 1

\* fatal(err): print err on standard error and exit
fatal(err) ==
    /\ stderr' = Append(stderr, err)
    /\ Exit(fatalExitCode)

\* the version flag is not looked at
versionRequested_ignored == FALSE

\* if *flagVersion
versionRequested == flagVersion

\* the number of positional arguments is not checked
wrongArity_unchecked == FALSE

\* if len(flag.Args()) != 1
wrongArity == nargs # 1

\* the check of -q against -m is left out
quietWithoutMapping_unchecked == FALSE

\* if *flagQuietMode && *flagMappingFile == ""
quietWithoutMapping == flagQuietMode /\ flagMappingFile = ""

\* the check of -k against -q is left out
continueWithoutQuiet_unchecked == FALSE

\* if *flagContinue && !*flagQuietMode
continueWithoutQuiet == flagContinue /\ ~flagQuietMode

\* the version query: print the version and exit 0
Version ==
    /\ pc = "main"
    /\ IF versionRequested
       THEN /\ stdout' = Append(stdout, "version")
            /\ Exit(0)
       ELSE /\ pc' = "arity"
            /\ UNCHANGED <<stdout, exitCode>>
    /\ UNCHANGED <<flags, stderr, cfg, batch, rerun, mainCalls>>

\* the arity check: print the usage and exit 1
ArityCheck ==
    /\ pc = "arity"
    /\ IF wrongArity
       THEN /\ stderr' = Append(stderr, usageText)
            /\ Exit(1)
       ELSE /\ pc' = "quiet"
            /\ UNCHANGED <<stderr, exitCode>>
    /\ UNCHANGED <<flags, stdout, cfg, batch, rerun, mainCalls>>

\* -q must come with -m
QuietCheck ==
    /\ pc = "quiet"
    /\ IF quietWithoutMapping
       THEN fatal(errQuietNeedsMapping)
       ELSE /\ pc' = "continue"
            /\ UNCHANGED <<stderr, exitCode>>
    /\ UNCHANGED <<flags, stdout, cfg, batch, rerun, mainCalls>>

\* -k must come with -q
ContinueCheck ==
    /\ pc = "continue"
    /\ IF continueWithoutQuiet
       THEN fatal(errContinueNeedsQuiet)
       ELSE /\ pc' = "NewConfig"
            /\ UNCHANGED <<stderr, exitCode>>
    /\ UNCHANGED <<flags, stdout, cfg, batch, rerun, mainCalls>>

\* cfg, err := config.NewConfig(...); then the choice of the batch path or the
\* interactive path, and the call of batchImport(*cfg, *flagContinue)
NewConfig ==
    /\ pc = "NewConfig"
    /\ \E c \in Cfgs, err \in {Nil} \cup Causes :
          IF err # Nil
          THEN /\ fatal(err)
               /\ mainCalls' = Append(mainCalls, "NewConfig")
               /\ UNCHANGED <<cfg, continueOnError>>
          ELSE /\ cfg' = c
               /\ IF flagQuietMode
                  THEN /\ pc' = "batchImport"
                       /\ continueOnError' = flagContinue
                       /\ mainCalls' = mainCalls \o <<"NewConfig", "batchImport">>
                  ELSE /\ pc' = "NewProgram"
                       /\ mainCalls' = Append(mainCalls, "NewConfig")
                       /\ UNCHANGED continueOnError
               /\ UNCHANGED <<stderr, exitCode>>
    /\ UNCHANGED <<flags, stdout, list, i, ret, logged, calls, rerun>>

\* prog, err := ui.NewProgram(*cfg)
NewProgram ==
    /\ pc = "NewProgram"
    /\ mainCalls' = Append(mainCalls, "NewProgram")
    /\ \E err \in {Nil} \cup Causes :
          IF err # Nil
          THEN fatal(err)
          ELSE /\ pc' = "Start"
               /\ UNCHANGED <<stderr, exitCode>>
    /\ UNCHANGED <<flags, stdout, cfg, batch, rerun>>

\* prog.Start(), and the return from main
Start ==
    /\ pc = "Start"
    /\ mainCalls' = Append(mainCalls, "Start")
    /\ \E err \in {Nil} \cup Causes :
          IF err # Nil
          THEN fatal(err)
          ELSE /\ Exit(0)
               /\ UNCHANGED stderr
    /\ UNCHANGED <<flags, stdout, cfg, batch, rerun>>

\* if err := batchImport(...); err != nil { fatal(err) }; return
BatchReturned ==
    /\ pc = "returned"
    /\ IF ret # Nil
       THEN fatal(ret)
       ELSE /\ Exit(0)
            /\ UNCHANGED stderr
    /\ UNCHANGED <<flags, stdout, cfg, batch, rerun, mainCalls>>

(***************************************************************************)
(* batchImport                                                             *)
(***************************************************************************)
\* return err, to main
Return(err) ==
    /\ ret' = err
    /\ pc' = "returned"

\* logger.Println / logger.Printf
Log(lines) == logged' = logged \o lines

\* the error of os.OpenFile is not looked at
OpenLogfile_IgnoresError ==
    /\ pc = "batchImport"
    /\ IF cfg.Logfile # ""
       THEN \E o \in Outcomes("OpenFile", 0, [arg : {<<>>}, err : {Nil} \cup Causes]) :
               /\ calls' = Append(calls, Call("OpenFile", 0, <<>>, o.err))
               /\ pc' = "NewMeta"
               /\ UNCHANGED ret
       ELSE /\ pc' = "NewMeta"
            /\ UNCHANGED <<ret, calls>>
    /\ UNCHANGED <<flags, exitCode, stdout, stderr, cfg, continueOnError, list, i, logged, rerun, mainCalls>>

\* the log file named by the configuration is opened, if one is named
OpenLogfile ==
    /\ pc = "batchImport"
    /\ IF cfg.Logfile # ""
       THEN \E o \in Outcomes("OpenFile", 0, [arg : {<<>>}, err : {Nil} \cup Causes]) :
               /\ calls' = Append(calls, Call("OpenFile", 0, <<>>, o.err))
               /\ IF o.err # Nil
                  THEN Return(o.err)
                  ELSE /\ pc' = "NewMeta"
                       /\ UNCHANGED ret
       ELSE /\ pc' = "NewMeta"
            /\ UNCHANGED <<ret, calls>>
    /\ UNCHANGED <<flags, exitCode, stdout, stderr, cfg, continueOnError, list, i, logged, rerun, mainCalls>>

\* the error of meta.NewMeta is not looked at
NewMeta_IgnoresError ==
    /\ pc = "NewMeta"
    /\ Log(<<Line("New meta", 0)>>)
    /\ \E o \in Outcomes("NewMeta", 0, [arg : {<<>>}, err : {Nil} \cup Causes]) :
          /\ calls' = Append(calls, Call("NewMeta", 0, <<>>, o.err))
          /\ pc' = "Init"
          /\ UNCHANGED ret
    /\ UNCHANGED <<flags, exitCode, stdout, stderr, cfg, continueOnError, list, i, rerun, mainCalls>>

\* c, err := meta.NewMeta(cfg)
NewMeta ==
    /\ pc = "NewMeta"
    /\ Log(<<Line("New meta", 0)>>)
    /\ \E o \in Outcomes("NewMeta", 0, [arg : {<<>>}, err : {Nil} \cup Causes]) :
          /\ calls' = Append(calls, Call("NewMeta", 0, <<>>, o.err))
          /\ IF o.err # Nil
             THEN Return(o.err)
             ELSE /\ pc' = "Init"
                  /\ UNCHANGED ret
    /\ UNCHANGED <<flags, exitCode, stdout, stderr, cfg, continueOnError, list, i, rerun, mainCalls>>

\* the error of c.Init() is not looked at
EngineInit_IgnoresError ==
    /\ pc = "Init"
    /\ Log(<<Line("Initialize", 0)>>)
    /\ \E o \in Outcomes("Init", 0, [arg : {<<>>}, err : {Nil} \cup Causes]) :
          /\ calls' = Append(calls, Call("Init", 0, <<>>, o.err))
          /\ pc' = "ListResource"
          /\ UNCHANGED ret
    /\ UNCHANGED <<flags, exitCode, stdout, stderr, cfg, continueOnError, list, i, rerun, mainCalls>>

\* c.Init()
EngineInit ==
    /\ pc = "Init"
    /\ Log(<<Line("Initialize", 0)>>)
    /\ \E o \in Outcomes("Init", 0, [arg : {<<>>}, err : {Nil} \cup Causes]) :
          /\ calls' = Append(calls, Call("Init", 0, <<>>, o.err))
          /\ IF o.err # Nil
             THEN Return(o.err)
             ELSE /\ pc' = "ListResource"
                  /\ UNCHANGED ret
    /\ UNCHANGED <<flags, exitCode, stdout, stderr, cfg, continueOnError, list, i, rerun, mainCalls>>

\* list := c.ListResource(), and the start of the loop over it
ListResource ==
    /\ pc = "ListResource"
    /\ \E o \in Outcomes("ListResource", 0, [arg : Lists, err : {Nil}]) :
          /\ calls' = Append(calls, Call("ListResource", 0, o.arg, Nil))
          /\ list' = o.arg
    /\ Log(<<Line("List resources", 0), Line("Import resources", 0)>>)
    /\ i' = 1
    /\ pc' = "loop"
    /\ UNCHANGED <<flags, exitCode, stdout, stderr, cfg, continueOnError, ret, rerun, mainCalls>>

\* for i := range list: the index after i
nextIndex(n) == n + 1

\* the skip test is left out: every record is imported
skipsRecord_never(r) == FALSE

\* if list[i].Skip()
skipsRecord(r) == Skip(r)

\* c.Import(&list[i]): the engine leaves the outcome of the import on the record
meta_Import(r, err) == [r EXCEPT !.ImportError = err]

\* a record without mapping: warn and go to the next record
SkipRecord ==
    /\ pc = "loop"
    /\ i <= Len(list)
    /\ skipsRecord(list[i])
    /\ Log(<<Line("[WARN] No mapping information for resource", i)>>)
    /\ i' = nextIndex(i)
    /\ UNCHANGED <<flags, pc, exitCode, stdout, stderr, cfg, continueOnError, list, ret, calls,
                   rerun, mainCalls>>

\* the records are visited in no fixed order: any record with a mapping from
\* the index on is passed to Import
Import_AnyOrder ==
    /\ pc = "loop"
    /\ i <= Len(list)
    /\ ~skipsRecord(list[i])
    /\ Log(<<Line("Importing", i)>>)
    /\ \E j \in i..Len(list) :
          /\ ~skipsRecord(list[j])
          /\ \E o \in Outcomes("Import", j, [arg : {<<>>}, err : {Nil} \cup Causes]) :
                /\ calls' = Append(calls, Call("Import", j, <<>>, o.err))
                /\ list' = [list EXCEPT ![j] = meta_Import(list[j], o.err)]
    /\ pc' = "ImportError"
    /\ UNCHANGED <<flags, exitCode, stdout, stderr, cfg, continueOnError, i, ret, rerun, mainCalls>>

\* a record with a mapping: c.Import(&list[i])
Import ==
    /\ pc = "loop"
    /\ i <= Len(list)
    /\ ~skipsRecord(list[i])
    /\ Log(<<Line("Importing", i)>>)
    /\ \E o \in Outcomes("Import", i, [arg : {<<>>}, err : {Nil} \cup Causes]) :
          /\ calls' = Append(calls, Call("Import", i, <<>>, o.err))
          /\ list' = [list EXCEPT ![i] = meta_Import(list[i], o.err)]
    /\ pc' = "ImportError"
    /\ UNCHANGED <<flags, exitCode, stdout, stderr, cfg, continueOnError, i, ret, rerun, mainCalls>>

\* msg := fmt.Sprintf("Failed to import %s as %s: %v", ...)
importMsg(r) == Sprintf(importFormat, <<r.ResourceID, TFAddr(r), r.ImportError>>)

\* return fmt.Errorf(msg)
importError(msg) == Errorf(msg, <<>>)

\* the policy flag is ignored: an import failure never aborts
abortsOnImportError_never == FALSE

\* the policy flag is ignored: an import failure always aborts
abortsOnImportError_always == TRUE

\* if !continueOnError
abortsOnImportError == ~continueOnError

\* under continueOnError the error is taken off the record once it is logged
CheckImportError_ClearsError ==
    /\ pc = "ImportError"
    /\ IF list[i].ImportError # Nil
       THEN IF abortsOnImportError
            THEN /\ Return(importError(importMsg(list[i])))
                 /\ UNCHANGED <<i, logged, list>>
            ELSE /\ Log(<<Line("[ERROR] Failed to import", i)>>)
                 /\ list' = [list EXCEPT ![i] = [@ EXCEPT !.ImportError = Nil]]
                 /\ i' = nextIndex(i)
                 /\ pc' = "loop"
                 /\ UNCHANGED ret
       ELSE /\ i' = nextIndex(i)
            /\ pc' = "loop"
            /\ UNCHANGED <<ret, logged, list>>
    /\ UNCHANGED <<flags, exitCode, stdout, stderr, cfg, continueOnError, calls, rerun, mainCalls>>

\* if err := list[i].ImportError; err != nil: abort, or log and go on
CheckImportError ==
    /\ pc = "ImportError"
    /\ IF list[i].ImportError # Nil
       THEN IF abortsOnImportError
            THEN /\ Return(importError(importMsg(list[i])))
                 /\ UNCHANGED <<i, logged>>
            ELSE /\ Log(<<Line("[ERROR] Failed to import", i)>>)
                 /\ i' = nextIndex(i)
                 /\ pc' = "loop"
                 /\ UNCHANGED ret
       ELSE /\ i' = nextIndex(i)
            /\ pc' = "loop"
            /\ UNCHANGED <<ret, logged>>
    /\ UNCHANGED <<flags, exitCode, stdout, stderr, cfg, continueOnError, list, calls, rerun, mainCalls>>

\* only the records that were imported without error are given to c.GenerateCfg
generateArg_filtered ==
    SelectSeq(list, LAMBDA r : ~Skip(r) /\ r.ImportError = Nil)

\* the list is given to c.GenerateCfg in reverse order
generateArg_reversed == [n \in 1..Len(list) |-> list[Len(list) + 1 - n]]

\* the list given to c.GenerateCfg
generateArg == list

\* the cause is made part of the format instead of an operand
generateError_inFormat(err) ==
    Errorf(SubSeq(generateFormat, 1, Len(generateFormat) - 2) \o err, <<>>)

\* fmt.Errorf("generating Terraform configuration: %v", err)
generateError(err) == Errorf(generateFormat, <<err>>)

\* c.GenerateCfg is left out when no record was imported
GenerateCfg_OnlyIfImported ==
    /\ pc = "loop"
    /\ i > Len(list)
    /\ Log(<<Line("Generate Terraform configurations", 0)>>)
    /\ IF \A j \in 1..Len(list) : Skip(list[j])
       THEN /\ Return(Nil)
            /\ UNCHANGED calls
       ELSE \E o \in Outcomes("GenerateCfg", 0, [arg : {<<>>}, err : {Nil} \cup Causes]) :
               /\ calls' = Append(calls, Call("GenerateCfg", 0, generateArg, o.err))
               /\ IF o.err # Nil
                  THEN Return(generateError(o.err))
                  ELSE Return(Nil)
    /\ UNCHANGED <<flags, exitCode, stdout, stderr, cfg, continueOnError, list, i, rerun, mainCalls>>

\* a failed c.GenerateCfg is tried once more
GenerateCfg_RetriesOnce ==
    /\ pc = "loop"
    /\ i > Len(list)
    /\ Log(<<Line("Generate Terraform configurations", 0)>>)
    /\ \E o \in Outcomes("GenerateCfg", 0, [arg : {<<>>}, err : {Nil} \cup Causes]) :
          /\ calls' = Append(calls, Call("GenerateCfg", 0, generateArg, o.err))
          /\ IF o.err # Nil /\ \A n \in 1..Len(calls) : calls[n].op # "GenerateCfg"
             THEN UNCHANGED <<pc, ret>>
             ELSE IF o.err # Nil
                  THEN Return(generateError(o.err))
                  ELSE Return(Nil)
    /\ UNCHANGED <<flags, exitCode, stdout, stderr, cfg, continueOnError, list, i, rerun, mainCalls>>

\* after the loop: c.GenerateCfg(list), and the return of batchImport
GenerateCfg ==
    /\ pc = "loop"
    /\ i > Len(list)
    /\ Log(<<Line("Generate Terraform configurations", 0)>>)
    /\ \E o \in Outcomes("GenerateCfg", 0, [arg : {<<>>}, err : {Nil} \cup Causes]) :
          /\ calls' = Append(calls, Call("GenerateCfg", 0, generateArg, o.err))
          /\ IF o.err # Nil
             THEN Return(generateError(o.err))
             ELSE Return(Nil)
    /\ UNCHANGED <<flags, exitCode, stdout, stderr, cfg, continueOnError, list, i, rerun, mainCalls>>

\* batchImport is run again with the same configuration; the collaborators
\* behave as in the first run
Rerun ==
    /\ pc = "returned"
    /\ run = 1
    /\ run' = 2
    /\ prevCalls' = calls
    /\ prevRet' = ret
    /\ calls' = <<>>
    /\ logged' = <<>>
    /\ list' = <<>>
    /\ i' = 1
    /\ ret' = Nil
    /\ pc' = "batchImport"
    /\ UNCHANGED <<flags, exitCode, stdout, stderr, cfg, continueOnError, mainCalls>>

(***************************************************************************)
(* Specifications                                                          *)
(***************************************************************************)
Next ==
    \/ Version
    \/ ArityCheck
    \/ QuietCheck
    \/ ContinueCheck
    \/ NewConfig
    \/ NewProgram
    \/ Start
    \/ OpenLogfile
    \/ NewMeta
    \/ EngineInit
    \/ ListResource
    \/ SkipRecord
    \/ Import
    \/ CheckImportError
    \/ GenerateCfg
    \/ BatchReturned

\* one process, one run of batchImport
Spec == Init /\ [][Next]_vars

\* one process whose steps are taken as long as one can be: main and
\* batchImport are sequential code, and every collaborator call returns
SpecLive == Init /\ [][Next]_vars /\ WF_vars(Next)

\* one process in which batchImport is run a second time
NextRerun == Next \/ Rerun

SpecRerun == Init /\ [][NextRerun]_vars

(***************************************************************************)
(* Reading the call log                                                    *)
(***************************************************************************)
\* the positions in the call log of the calls of op
CallsOf(op) == { n \in 1..Len(calls) : calls[n].op = op }

\* the positions of the Import calls that left an error on their record
FailedImports == { n \in CallsOf("Import") : calls[n].err # Nil }

\* the positions of the failed calls that are fatal to the run: every failed call but an
\* Import under continueOnError
FatalCalls ==
    { n \in 1..Len(calls) :
        /\ calls[n].err # Nil
        /\ calls[n].op = "Import" => ~continueOnError }

\* batchImport has returned
Returned == pc = "returned" \/ (pc = "exited" /\ calls # <<>>)

\* the list ListResource returned in this run
Discovered == calls[CHOOSE n \in CallsOf("ListResource") : TRUE].arg

\* s has sub as a contiguous part
Contains(s, sub) ==
    \E k \in 1..(Len(s) - Len(sub) + 1) : SubSeq(s, k, k + Len(sub) - 1) = sub

(***************************************************************************)
(* C1: with continueOnError = false, once Import has left an error on a    *)
(* record, that Import call is the last engine call of the run: no record  *)
(* after it is passed to Import, GenerateCfg is not called, the loop is    *)
(* not entered again, and batchImport returns a non-nil error.             *)
(***************************************************************************)
C1_AbortOnFirstFailure ==
    ~continueOnError =>
        \A n \in FailedImports :
            /\ n = Len(calls)
            /\ CallsOf("GenerateCfg") = {}
            /\ \A j \in (calls[n].idx + 1)..Len(list) : list[j].ImportError = Nil
            /\ pc \in {"ImportError", "returned", "exited"}
            /\ pc \in {"returned", "exited"} => ret # Nil
            /\ pc = "exited" => exitCode = <<1>>

\* an aborted run whose failed record has a mapped record after it
C1_Witness ==
    /\ pc = "exited"
    /\ ~continueOnError
    /\ \E n \in FailedImports :
          \E j \in (calls[n].idx + 1)..Len(list) : ~Skip(list[j])

(***************************************************************************)
(* C2: with continueOnError = true, when batchImport has returned after    *)
(* discovery, every record with a mapping was passed to Import, whatever   *)
(* failed before it, and GenerateCfg was called exactly once, with the     *)
(* full list, the failed and the skipped records included.                 *)
(***************************************************************************)
C2_ContinueImportsAllThenGenerates ==
    (continueOnError /\ Returned /\ CallsOf("ListResource") # {}) =>
        /\ \A j \in 1..Len(Discovered) :
              ~Skip(Discovered[j]) => \E n \in CallsOf("Import") : calls[n].idx = j
        /\ Cardinality(CallsOf("GenerateCfg")) = 1
        /\ \A n \in CallsOf("GenerateCfg") :
              /\ n = Len(calls)
              /\ calls[n].arg = list
              /\ Len(calls[n].arg) = Len(Discovered)
              /\ \A j \in 1..Len(Discovered) :
                    /\ calls[n].arg[j].ResourceID = Discovered[j].ResourceID
                    /\ calls[n].arg[j].mappingPresent = Discovered[j].mappingPresent
                    /\ calls[n].arg[j].targetAddress = Discovered[j].targetAddress

\* a finished run with a skipped record and a failed record followed by an
\* imported one
C2_Witness ==
    /\ pc = "exited"
    /\ continueOnError
    /\ \E j \in 1..Len(list) : Skip(list[j])
    /\ \E n \in FailedImports : \E m \in CallsOf("Import") : m > n /\ calls[m].err = Nil

(***************************************************************************)
(* C3: for either value of continueOnError, a record without mapping is    *)
(* never passed to Import and its ImportError stays nil; there are never   *)
(* more Import calls than records with a mapping.                          *)
(***************************************************************************)
C3_UnmappedNeverImported ==
    /\ \A n \in CallsOf("Import") : ~Skip(list[calls[n].idx])
    /\ \A j \in 1..Len(list) : Skip(list[j]) => list[j].ImportError = Nil
    /\ Cardinality(CallsOf("Import")) <= Cardinality({ j \in 1..Len(list) : ~Skip(list[j]) })

\* a finished run over a list with two records without mapping and a failed import
C3_Witness ==
    /\ pc = "exited"
    /\ Cardinality({ j \in 1..Len(list) : Skip(list[j]) }) = 2
    /\ FailedImports # {}
    /\ CallsOf("GenerateCfg") # {}

(***************************************************************************)
(* C4 as stated: whatever the other flags and arguments are, -q with an    *)
(* empty -m, and -k without -q, end in an argument error, exit code 1.     *)
(***************************************************************************)
C4_Original ==
    (pc = "exited" /\ ((flagQuietMode /\ flagMappingFile = "") \/ (flagContinue /\ ~flagQuietMode)))
        => exitCode = <<1>>

(***************************************************************************)
(* C4 amended: when the version flag is not set, whatever the other flags  *)
(* and arguments are, -q with an empty -m, and -k without -q, never get    *)
(* past the argument checks and end with exit code 1 and the usage or the  *)
(* argument error on standard error.                                       *)
(***************************************************************************)
C4_ArgumentErrorUnlessVersion ==
    (~flagVersion /\ ((flagQuietMode /\ flagMappingFile = "") \/ (flagContinue /\ ~flagQuietMode)))
        => /\ pc \in {"main", "arity", "quiet", "continue", "exited"}
           /\ pc = "exited" =>
                 /\ exitCode = <<1>>
                 /\ stderr \in {<<usageText>>, <<errQuietNeedsMapping>>, <<errContinueNeedsQuiet>>}

\* -k without -q, with one positional argument, ended in the argument error
C4_Witness ==
    /\ pc = "exited"
    /\ ~flagVersion /\ nargs = 1
    /\ flagContinue /\ ~flagQuietMode
    /\ stderr = <<errContinueNeedsQuiet>>

(***************************************************************************)
(* C5: the process ends once, with code 0 when no error was reported and   *)
(* with code 1 when the usage or an error was printed on standard error;   *)
(* the error batchImport returns comes from the first failing call that is *)
(* fatal (the log file, NewMeta, Init, an Import when continueOnError is   *)
(* false, GenerateCfg), which is the last call of the run; batchImport     *)
(* returns nil when there is none, and main prints what it returned.       *)
(***************************************************************************)
C5_ExitCodeAndFirstError ==
    /\ Len(exitCode) <= 1
    /\ Len(stderr) <= 1
    /\ pc = "exited" <=> exitCode # <<>>
    /\ pc = "exited" =>
          /\ exitCode = <<0>> <=> stderr = <<>>
          /\ exitCode = <<1>> <=> stderr # <<>>
    /\ pc # "exited" => stderr = <<>>
    /\ \A n \in FatalCalls : n = Len(calls)
    /\ Returned =>
          /\ ret = Nil <=> FatalCalls = {}
          /\ \A n \in FatalCalls :
                /\ calls[n].op \in {"OpenFile", "NewMeta", "Init"} => ret = calls[n].err
                /\ calls[n].op \in {"Import", "GenerateCfg"} => ret # Nil
          /\ pc = "exited" => stderr = (IF ret = Nil THEN <<>> ELSE <<ret>>)

\* a run that went on after a failed import and ended with code 1 on the
\* failure of GenerateCfg
C5_Witness ==
    /\ pc = "exited"
    /\ exitCode = <<1>>
    /\ FailedImports # {}
    /\ \E n \in FatalCalls : calls[n].op = "GenerateCfg"

(***************************************************************************)
(* C6: the list ListResource returned keeps its length, its records and    *)
(* its order through the run: the Import calls are made in strictly        *)
(* increasing index, every record of the list differs from the discovered  *)
(* one in ImportError at most, and that only where Import was called, and  *)
(* GenerateCfg is given this same list.                                    *)
(***************************************************************************)
C6_ListFixedAfterDiscovery ==
    /\ \A n, m \in CallsOf("Import") : n < m => calls[n].idx < calls[m].idx
    /\ CallsOf("ListResource") = {} => list = <<>>
    /\ CallsOf("ListResource") # {} =>
          /\ Len(list) = Len(Discovered)
          /\ \A j \in 1..Len(list) :
                /\ [list[j] EXCEPT !.ImportError = Nil] = Discovered[j]
                /\ list[j].ImportError # Nil =>
                      \E n \in CallsOf("Import") :
                          calls[n].idx = j /\ calls[n].err = list[j].ImportError
          /\ \A n \in CallsOf("GenerateCfg") :
                /\ Len(calls[n].arg) = Len(Discovered)
                /\ \A j \in 1..Len(Discovered) :
                      /\ [calls[n].arg[j] EXCEPT !.ImportError = Nil] = Discovered[j]
                      /\ calls[n].arg[j] = list[j]

\* GenerateCfg was given a list of three different records, two of them imported
C6_Witness ==
    /\ \E n \in CallsOf("GenerateCfg") :
          /\ Len(calls[n].arg) = 3
          /\ Cardinality({ calls[n].arg[j].ResourceID : j \in 1..3 }) = 2
          /\ calls[n].arg[1] # calls[n].arg[3]
    /\ Cardinality(CallsOf("Import")) >= 2

(***************************************************************************)
(* C7 as stated: with continueOnError = false, the error returned on abort *)
(* has in it the resource ID, the target address and the cause of the      *)
(* failed record, whatever these three strings are.                        *)
(***************************************************************************)
C7_Original ==
    (pc = "returned" /\ ~continueOnError /\ FailedImports # {}) =>
        \A n \in FailedImports :
            /\ Contains(ret, list[calls[n].idx].ResourceID)
            /\ Contains(ret, TFAddr(list[calls[n].idx]))
            /\ Contains(ret, calls[n].err)

(***************************************************************************)
(* C8: when GenerateCfg fails, for either value of continueOnError and any *)
(* import outcomes, batchImport returns the non-nil error whose text is    *)
(* "generating Terraform configuration: " followed by the text of the      *)
(* cause, and the process ends with code 1 and this error on standard      *)
(* error.                                                                  *)
(***************************************************************************)
C8_GenerationFailureIsFatal ==
    \A n \in CallsOf("GenerateCfg") :
        calls[n].err # Nil =>
            /\ pc \in {"returned", "exited"}
            /\ ret # Nil
            /\ ret = SubSeq(generateFormat, 1, Len(generateFormat) - 2) \o calls[n].err
            /\ pc = "exited" => exitCode = <<1>> /\ stderr = <<ret>>

\* GenerateCfg failed with a cause that has a percent sign, after failed and
\* successful imports
C8_Witness ==
    /\ pc = "exited"
    /\ \E n \in CallsOf("GenerateCfg") : calls[n].err = <<"%", "d">>
    /\ FailedImports # {}
    /\ CallsOf("Import") \ FailedImports # {}

(***************************************************************************)
(* C9: with continueOnError = true, the failure of an import is never what *)
(* batchImport returns: it returns nil whenever GenerateCfg succeeded, and *)
(* otherwise the error of the log file, of NewMeta or of Init, or the      *)
(* generation error; every failure is on its record in the list given to   *)
(* GenerateCfg.                                                            *)
(***************************************************************************)
C9_ImportFailureNotPropagated ==
    (continueOnError /\ Returned) =>
        /\ (\E n \in CallsOf("GenerateCfg") : calls[n].err = Nil) => ret = Nil
        /\ ret # Nil =>
              /\ calls[Len(calls)].op \in {"OpenFile", "NewMeta", "Init", "GenerateCfg"}
              /\ calls[Len(calls)].err # Nil
        /\ \A n \in FailedImports :
              /\ CallsOf("GenerateCfg") # {}
              /\ \A g \in CallsOf("GenerateCfg") :
                    calls[g].arg[calls[n].idx].ImportError = calls[n].err
        /\ (pc = "exited" /\ ret = Nil) => exitCode = <<0>>

\* every record of a list of three has a mapping and failed to import, and the
\* run ended with code 0
C9_Witness ==
    /\ pc = "exited"
    /\ continueOnError
    /\ Len(list) = 3
    /\ \A j \in 1..Len(list) : ~Skip(list[j]) /\ list[j].ImportError # Nil
    /\ ret = Nil
    /\ exitCode = <<0>>

(***************************************************************************)
(* C10: when batchImport is run again with the same configuration and the  *)
(* collaborators behave as in the first run, at every point of the second  *)
(* run the calls made so far are the first calls of the first run, and     *)
(* when it returns it has made the same calls, with the same arguments,    *)
(* and returns the same value.                                             *)
(***************************************************************************)
C10_RerunSameCallsSameOutcome ==
    run = 2 =>
        /\ Len(calls) <= Len(prevCalls)
        /\ calls = SubSeq(prevCalls, 1, Len(calls))
        /\ pc = "returned" => calls = prevCalls /\ ret = prevRet

\* the second run has returned the import error of the first run
C10_Witness ==
    /\ run = 2
    /\ pc = "returned"
    /\ ~continueOnError
    /\ FailedImports # {}
    /\ Cardinality(CallsOf("Import")) >= 2
    /\ ret # Nil

(***************************************************************************)
(* C11: an argument error (a wrong number of positional arguments, -q      *)
(* without -m, -k without -q, the version flag not being set) is found     *)
(* before any engine work: in such a process config.NewConfig,             *)
(* batchImport with meta.NewMeta, Init, ListResource, Import and           *)
(* GenerateCfg, and the interactive program are never invoked, and when    *)
(* the usage or an argument error has been printed nothing was invoked.    *)
(***************************************************************************)
C11_ArgumentErrorBeforeEngineWork ==
    /\ (~flagVersion /\ (\/ nargs # 1
                         \/ flagQuietMode /\ flagMappingFile = ""
                         \/ flagContinue /\ ~flagQuietMode)) =>
          /\ mainCalls = <<>>
          /\ calls = <<>>
          /\ logged = <<>>
          /\ cfg = NoCfg
          /\ pc = "exited" =>
                stderr \in {<<usageText>>, <<errQuietNeedsMapping>>, <<errContinueNeedsQuiet>>}
    /\ (stderr \in {<<usageText>>, <<errQuietNeedsMapping>>, <<errContinueNeedsQuiet>>}) =>
          mainCalls = <<>> /\ calls = <<>> /\ logged = <<>>

\* the process ended on the usage, with valid flags and two positional arguments
C11_Witness ==
    /\ pc = "exited"
    /\ nargs = 2
    /\ flagQuietMode /\ flagMappingFile # "" /\ flagContinue
    /\ stderr = <<usageText>>
    /\ exitCode = <<1>>

(***************************************************************************)
(* C12: the engine calls of a run of batchImport follow the phase order:   *)
(* the log file, NewMeta, Init, ListResource, the Import calls,            *)
(* GenerateCfg.  No call but Import is made twice, none is made before the *)
(* call of the phase before it has succeeded, ListResource is called       *)
(* exactly once in a run that initializes, after Init and before the first *)
(* Import, and GenerateCfg comes after the last Import and ends the run.   *)
(***************************************************************************)
\* the place of a call in the phase order
OpRank(op) ==
    CASE op = "OpenFile" -> 0
      [] op = "NewMeta" -> 1
      [] op = "Init" -> 2
      [] op = "ListResource" -> 3
      [] op = "Import" -> 4
      [] op = "GenerateCfg" -> 5

\* a call of op that returned no error was made before position n
SucceededBefore(op, n) == \E m \in 1..(n - 1) : calls[m].op = op /\ calls[m].err = Nil

C12_PhaseOrder ==
    /\ \A n, m \in 1..Len(calls) :
          n < m => \/ OpRank(calls[n].op) < OpRank(calls[m].op)
                   \/ calls[n].op = "Import" /\ calls[m].op = "Import"
    /\ \A n \in 1..Len(calls) :
          /\ calls[n].op = "Init" => SucceededBefore("NewMeta", n)
          /\ calls[n].op = "ListResource" => SucceededBefore("Init", n)
          /\ calls[n].op \in {"Import", "GenerateCfg"} => SucceededBefore("ListResource", n)
          /\ calls[n].op = "GenerateCfg" => n = Len(calls) /\ pc \in {"returned", "exited"}
    /\ Cardinality(CallsOf("ListResource")) <= 1
    /\ (Returned /\ \E n \in CallsOf("Init") : calls[n].err = Nil) =>
          Cardinality(CallsOf("ListResource")) = 1
    /\ pc \in {"batchImport", "NewMeta", "Init", "ListResource"} => CallsOf("ListResource") = {}
    /\ pc \in {"loop", "ImportError"} =>
          CallsOf("ListResource") # {} /\ CallsOf("GenerateCfg") = {}
    /\ pc = "ImportError" => calls[Len(calls)].op = "Import" /\ calls[Len(calls)].idx = i

\* a run that went through every phase: the log file, NewMeta, Init,
\* ListResource, two imports and GenerateCfg
C12_Witness ==
    /\ pc = "returned"
    /\ Len(calls) = 7
    /\ calls[1].op = "OpenFile"
    /\ Cardinality(CallsOf("Import")) = 2
    /\ calls[7].op = "GenerateCfg"

(***************************************************************************)
(* C13: GenerateCfg is called at most once in a run, and when batchImport  *)
(* has returned it was called exactly once if and only if Init succeeded   *)
(* and the import phase did not abort (no import failed under              *)
(* continueOnError = false): also when no record failed, when the list is  *)
(* empty and when no record has a mapping.  It is given the full list.     *)
(***************************************************************************)
C13_GenerateOnceIffNotAborted ==
    /\ Cardinality(CallsOf("GenerateCfg")) <= 1
    /\ Returned =>
          (Cardinality(CallsOf("GenerateCfg")) = 1
              <=> /\ \E n \in CallsOf("Init") : calls[n].err = Nil
                  /\ ~(~continueOnError /\ FailedImports # {}))
    /\ \A n \in CallsOf("GenerateCfg") :
          /\ calls[n].arg = list
          /\ Len(calls[n].arg) = Len(Discovered)

\* with continueOnError = false GenerateCfg was given a list of two records
\* without mapping
C13_Witness ==
    /\ pc = "returned"
    /\ ~continueOnError
    /\ CallsOf("Import") = {}
    /\ \E n \in CallsOf("GenerateCfg") : Len(calls[n].arg) = 2

(***************************************************************************)
(* C14: when meta.NewMeta or Init fails, the failed call is the last call  *)
(* of the run and batchImport returns its error unchanged: ListResource,   *)
(* Import and GenerateCfg are not called, and the list stays empty.        *)
(***************************************************************************)
C14_InitFailureAbortsBeforeDiscovery ==
    \A n \in CallsOf("NewMeta") \cup CallsOf("Init") :
        calls[n].err # Nil =>
            /\ n = Len(calls)
            /\ CallsOf("ListResource") \cup CallsOf("Import") \cup CallsOf("GenerateCfg") = {}
            /\ list = <<>>
            /\ pc \in {"returned", "exited"}
            /\ ret = calls[n].err
            /\ pc = "exited" => exitCode = <<1>> /\ stderr = <<calls[n].err>>

\* Init failed, after NewMeta succeeded, with a cause that has a percent sign
C14_Witness ==
    /\ pc = "exited"
    /\ \E n \in CallsOf("Init") : calls[n].err = <<"%", "d">>
    /\ \E n \in CallsOf("NewMeta") : calls[n].err = Nil

(***************************************************************************)
(* C15: in a run no record is passed to Import twice, and the ImportError  *)
(* of a record is nil as long as the record has not been passed to Import  *)
(* and is, from then on and in every later state of the run, what that     *)
(* Import call left on it.                                                 *)
(***************************************************************************)
C15_ImportOnceErrorWriteOnce ==
    /\ \A n, m \in CallsOf("Import") : calls[n].idx = calls[m].idx => n = m
    /\ \A j \in 1..Len(list) :
          IF \E n \in CallsOf("Import") : calls[n].idx = j
          THEN \A n \in CallsOf("Import") : calls[n].idx = j => list[j].ImportError = calls[n].err
          ELSE list[j].ImportError = Nil

\* the first record failed to import, two more records were imported after it,
\* with and without error, and the run has ended
C15_Witness ==
    /\ pc = "exited"
    /\ Len(list) = 3
    /\ Cardinality(CallsOf("Import")) = 3
    /\ list[1].ImportError = <<"e">>
    /\ list[2].ImportError = Nil
    /\ list[3].ImportError = <<"%", "d">>

(***************************************************************************)
(* C16: every run of batchImport, each collaborator call returning,        *)
(* returns in the end, in exactly one of the terminal states               *)
(* (initialization failure, Aborted, GenerationFailed, Generated).  A step *)
(* can be taken as long as the process has not ended, and every step       *)
(* brings the end nearer, so that under the fairness of SpecLive the run   *)
(* ends; a failed call that is fatal is the last call of the run, and once *)
(* batchImport has returned no engine call is made and neither the list    *)
(* nor the returned value changes: no failed import or generation is tried *)
(* again.                                                                  *)
(***************************************************************************)
\* the terminal states batchImport has returned in
TerminalStates ==
    IF calls = <<>> THEN {}
    ELSE LET last == calls[Len(calls)] IN
         { t \in {"InitializationFailed", "Aborted", "GenerationFailed", "Generated"} :
             \/ /\ t = "InitializationFailed"
                /\ last.op \in {"OpenFile", "NewMeta", "Init"} /\ last.err # Nil /\ ret = last.err
             \/ /\ t = "Aborted"
                /\ last.op = "Import" /\ last.err # Nil /\ ~continueOnError /\ ret # Nil
             \/ /\ t = "GenerationFailed"
                /\ last.op = "GenerateCfg" /\ last.err # Nil /\ ret # Nil
             \/ /\ t = "Generated"
                /\ last.op = "GenerateCfg" /\ last.err = Nil /\ ret = Nil }

\* an upper bound of the number of steps the process has left
StepsLeft ==
    CASE pc = "exited" -> 0
      [] pc = "returned" -> 1
      [] pc = "Start" -> 1
      [] pc = "NewProgram" -> 2
      [] pc = "ImportError" -> 1 + 2 * (Len(list) + 1 - i)
      [] pc = "loop" -> 2 + 2 * (Len(list) + 1 - i)
      [] pc = "ListResource" -> 3 + 2 * MaxLen
      [] pc = "Init" -> 4 + 2 * MaxLen
      [] pc = "NewMeta" -> 5 + 2 * MaxLen
      [] pc = "batchImport" -> 6 + 2 * MaxLen
      [] pc = "NewConfig" -> 7 + 2 * MaxLen
      [] pc = "continue" -> 8 + 2 * MaxLen
      [] pc = "quiet" -> 9 + 2 * MaxLen
      [] pc = "arity" -> 10 + 2 * MaxLen
      [] pc = "main" -> 11 + 2 * MaxLen

\* a step of the process can be taken (the check of the import error can be
\* taken whenever the process is at it and i is an index of the list)
CanStep ==
    \/ ENABLED Version \/ ENABLED ArityCheck \/ ENABLED QuietCheck \/ ENABLED ContinueCheck
    \/ ENABLED NewConfig \/ ENABLED NewProgram \/ ENABLED Start \/ ENABLED BatchReturned
    \/ ENABLED OpenLogfile \/ ENABLED NewMeta \/ ENABLED EngineInit \/ ENABLED ListResource
    \/ ENABLED SkipRecord \/ ENABLED Import \/ ENABLED GenerateCfg
    \/ (pc = "ImportError" /\ i \in 1..Len(list))

C16_RunEndsInOneTerminalState ==
    /\ [](pc # "exited" => CanStep)
    /\ [](StepsLeft >= 0)
    /\ [][StepsLeft' < StepsLeft]_vars
    /\ [](Returned => Cardinality(TerminalStates) = 1)
    /\ [](\A n \in FatalCalls : n = Len(calls))
    /\ [][Returned => (calls' = calls /\ list' = list /\ ret' = ret)]_vars

\* the process has ended after a run that aborted on the second of three records
C16_Witness ==
    /\ pc = "exited"
    /\ TerminalStates = {"Aborted"}
    /\ Len(list) = 3
    /\ calls[Len(calls)].idx = 2
    /\ Cardinality(CallsOf("Import")) = 2

(***************************************************************************)
(* C17: batchImport runs only when quiet mode is set and the interactive   *)
(* program (ui.NewProgram, Start) only when it is not; in every process    *)
(* that reaches batchImport the mapping file path is not empty, the        *)
(* version flag is not set and there is one positional argument;           *)
(* continueOnError is true only in a run of batchImport, never on the      *)
(* interactive path, where -k is not set either.                           *)
(***************************************************************************)
\* main made the call named f
Invoked(f) == \E n \in 1..Len(mainCalls) : mainCalls[n] = f

C17_BatchOnlyWhenQuiet ==
    /\ (Invoked("batchImport") \/ calls # <<>> \/ logged # <<>>) =>
          /\ flagQuietMode /\ flagMappingFile # "" /\ ~flagVersion /\ nargs = 1
          /\ Invoked("batchImport")
          /\ continueOnError = flagContinue
          /\ ~Invoked("NewProgram") /\ ~Invoked("Start")
    /\ (Invoked("NewProgram") \/ Invoked("Start")) =>
          /\ ~flagQuietMode /\ ~flagContinue /\ ~flagVersion /\ nargs = 1
          /\ ~Invoked("batchImport")
          /\ calls = <<>> /\ logged = <<>>
    /\ Invoked("Start") => Invoked("NewProgram")
    /\ continueOnError => Invoked("batchImport")
    /\ pc \in {"batchImport", "NewMeta", "Init", "ListResource", "loop", "ImportError", "returned"}
          => Invoked("batchImport")
    /\ pc \in {"NewProgram", "Start"} => ~flagQuietMode

\* a run of batchImport with continueOnError = true has returned, after a
\* failed import
C17_Witness ==
    /\ pc = "returned"
    /\ continueOnError
    /\ Invoked("batchImport")
    /\ FailedImports # {}

(***************************************************************************)
(* C18: when the version flag is set, whatever the other flags and         *)
(* arguments are, the process prints the version and ends with code 0      *)
(* before any check of the arguments: nothing is printed on standard       *)
(* error, and neither config.NewConfig, batchImport, the engine nor the    *)
(* interactive program is invoked.                                         *)
(***************************************************************************)
C18_VersionExitsFirst ==
    flagVersion =>
        /\ pc \in {"main", "exited"}
        /\ stderr = <<>>
        /\ mainCalls = <<>> /\ calls = <<>> /\ logged = <<>> /\ cfg = NoCfg
        /\ pc = "exited" => exitCode = <<0>> /\ stdout = <<"version">>
        /\ pc = "main" => exitCode = <<>> /\ stdout = <<>>

\* the version was printed for an invocation with no positional argument and
\* -k without -q
C18_Witness ==
    /\ pc = "exited"
    /\ flagVersion
    /\ nargs = 0
    /\ flagContinue /\ ~flagQuietMode
    /\ stdout = <<"version">>

(***************************************************************************)
(* C19: the log file is opened only when the run configuration names one,  *)
(* as the first call of batchImport; when it cannot be opened, batchImport *)
(* returns that error unchanged before the engine is made: nothing is      *)
(* logged, meta.NewMeta, Init, ListResource, Import and GenerateCfg are    *)
(* not called, and the process ends with code 1 and the error on standard  *)
(* error.                                                                  *)
(***************************************************************************)
C19_LogfileFailureBeforeEngine ==
    /\ \A n \in CallsOf("OpenFile") : n = 1 /\ cfg.Logfile # ""
    /\ (cfg.Logfile # "" /\ calls # <<>>) => calls[1].op = "OpenFile"
    /\ \A n \in CallsOf("OpenFile") :
          calls[n].err # Nil =>
              /\ Len(calls) = 1
              /\ logged = <<>>
              /\ list = <<>>
              /\ pc \in {"returned", "exited"}
              /\ ret = calls[n].err
              /\ pc = "exited" => exitCode = <<1>> /\ stderr = <<calls[n].err>>

\* the process has ended with code 1 on a log file that could not be opened,
\* with continueOnError = true
C19_Witness ==
    /\ pc = "exited"
    /\ continueOnError
    /\ cfg.Logfile # ""
    /\ Len(calls) = 1
    /\ calls[1].err # Nil
    /\ exitCode = <<1>>

====
